---- MODULE Spec2Model ----
(***************************************************************************)
(* A model of CdlList<T> (src/src/cdl_list.rs): a circular doubly linked   *)
(* list built from Rc<RefCell<Node<T>>> cells whose links are either       *)
(* StrongLink (an Rc, owning) or WeakLink (a Weak, observing).             *)
(*                                                                         *)
(* The heap is modelled explicitly: every node is an identifier, a node is *)
(* alive while its strong count is positive, and every handler is the      *)
(* sequence of field rewrites the Rust code performs, with each unwrap(),  *)
(* try_unwrap(), borrow_mut() and unreachable!() that can panic modelled   *)
(* as a transition to a panicked list.                                     *)
(***************************************************************************)
EXTENDS Integers, Sequences, FiniteSets, TLC

\* ------------------------------------------------------------------ bounds
\* Largest number of elements the model lets a list hold.
MaxSize == 4
\* Payloads are 1..NumValues.
NumValues == 2
\* Largest number of push calls in the call-counting harness.
MaxCalls == 5

Values == 1..NumValues
\* Option::None of a returned payload.
None == 0
\* Option::None of head / tail (no node).
NoNode == 0
\* Node cells: more than MaxSize, so that a cell still named by a dangling
\* WeakLink is never handed out again while the link exists.
NodeIds == 1..(MaxSize + 2)
Indices == 0..MaxSize

\* ------------------------------------------------------------------ state
VARIABLES
    head,      \* CdlList.head : NoNode or a node
    tail,      \* CdlList.tail : NoNode or a node
    size,      \* CdlList.size
    next,      \* Node.next of every cell
    prev,      \* Node.prev of every cell
    data,      \* Node.data of every cell
    alive,     \* cells whose strong count is positive (allocated, not freed)
    panicked,  \* a handler hit unwrap()/unreachable!()/a borrow error
    op,        \* the last public call: [name, index, val]
    ret,       \* what the last public call returned (None when nothing)
    abs,       \* ghost: the plain sequence the same calls produce
    absRet,    \* ghost: what the plain sequence returned for the last call
    before,    \* ghost: the payloads, front to back, before the last call
    undo,      \* ghost: set when remove_at(i) directly follows insert_at(i, v)
    pushes,    \* harness: number of push_front/push_back calls made
    pops,      \* harness: number of pop_front/pop_back calls that returned Some
    mode,      \* harness: which round trip is being run
    pushed,    \* harness: payloads pushed by the round trip, in call order
    popped     \* harness: payloads popped by the round trip, in call order

listVars == <<head, tail, size, next, prev, data, alive, panicked>>
callVars == <<op, ret>>
ghostVars == <<abs, absRet, before, undo>>
countVars == <<pushes, pops>>
tripVars == <<mode, pushed, popped>>
vars == <<head, tail, size, next, prev, data, alive, panicked, op, ret,
          abs, absRet, before, undo, pushes, pops, mode, pushed, popped>>

\* ------------------------------------------------------------------ links
\* enum LinkType / Option<LinkType>: None, StrongLink(rc), WeakLink(weak).
NoLink == [kind |-> "None", ref |-> NoNode]
StrongLink(n) == [kind |-> "Strong", ref |-> n]
WeakLink(n) == [kind |-> "Weak", ref |-> n]

\* The list and its heap as one value, so that handlers compose.
Cur ==
    [head |-> head, tail |-> tail, size |-> size, next |-> next, prev |-> prev,
     data |-> data, alive |-> alive, panicked |-> panicked]

\* CdlList::new(): no node, size 0.
new ==
    [head |-> NoNode, tail |-> NoNode, size |-> 0,
     next |-> [n \in NodeIds |-> NoLink], prev |-> [n \in NodeIds |-> NoLink],
     data |-> [n \in NodeIds |-> None], alive |-> {}, panicked |-> FALSE]

\* CdlList::is_empty
is_empty(s) == s.size = 0

\* CdlList::size
SizeOf(s) == s.size

\* Rc::strong_count of cell n once every local of the running handler is gone:
\* the handle's head and tail, and every StrongLink stored in a live node.
StrongCount(s, n) ==
    (IF s.head = n THEN 1 ELSE 0) + (IF s.tail = n THEN 1 ELSE 0)
    + Cardinality({m \in s.alive : s.next[m] = StrongLink(n)})
    + Cardinality({m \in s.alive : s.prev[m] = StrongLink(n)})

\* Dropping a Node: its fields are dropped with it.
FreeNode(s, n) ==
    [s EXCEPT !.alive = @ \ {n}, !.next[n] = NoLink, !.prev[n] = NoLink,
              !.data[n] = None]

RECURSIVE FreeAll(_, _)
FreeAll(s, dead) ==
    IF dead = {} THEN s
    ELSE LET n == CHOOSE m \in dead : TRUE
         IN FreeAll(FreeNode(s, n), dead \ {n})

\* Rc's drop glue: a cell whose strong count reached zero is freed, which drops
\* the links it stored, which may free further cells.
RECURSIVE Collect(_)
Collect(s) ==
    LET dead == {n \in s.alive : StrongCount(s, n) = 0}
    IN IF dead = {} THEN s ELSE Collect(FreeAll(s, dead))

\* Cells a WeakLink of a live node still names (their allocation is kept).
WeakTargets(s) ==
    {s.next[m].ref : m \in {k \in s.alive : s.next[k].kind = "Weak"}}
    \cup {s.prev[m].ref : m \in {k \in s.alive : s.prev[k].kind = "Weak"}}

FreeCells(s) == NodeIds \ (s.alive \cup WeakTargets(s))

\* Rc::new(RefCell::new(Node::new(t))): a cell that is not in use.
FreshNode(s) == CHOOSE n \in FreeCells(s) : \A m \in FreeCells(s) : n <= m

\* Node::new(t) placed in a fresh cell: next and prev are None.
AllocNode(s, n, t) ==
    [s EXCEPT !.alive = @ \cup {n}, !.data[n] = t, !.next[n] = NoLink,
              !.prev[n] = NoLink]

\* A panic: the handler stops where it is.
Panic(s) == [s EXCEPT !.panicked = TRUE]

\* ------------------------------------------------------------------- push
\* A faulty empty branch: the node's self-references are StrongLinks, a
\* reference cycle.
PushEmptyStrongSelf(s, n) ==
    [s EXCEPT !.next[n] = StrongLink(n), !.prev[n] = StrongLink(n),
              !.head = n, !.tail = n]

\* CdlList::push, the branch for an empty list.
PushEmpty(s, n) ==
    [s EXCEPT !.next[n] = WeakLink(n), !.prev[n] = WeakLink(n),
              !.head = n, !.tail = n]

\* A faulty insert_front branch: the new node's next is a WeakLink to the old
\* head, so nothing owns the old head once the handle's head moves.
PushFrontLinksWeakNext(s, n) ==
    LET head_ref == s.head
        s1 == [s EXCEPT !.next[n] = WeakLink(head_ref),
                        !.prev[head_ref] = WeakLink(n)]
        s2 == IF SizeOf(s) = 1 THEN [s1 EXCEPT !.next[head_ref] = WeakLink(n)]
              ELSE s1
    IN [s2 EXCEPT !.head = n]

\* A faulty insert_front branch: the size == 1 special case is missing, so the
\* single old node's next stays a self-reference.
PushFrontLinksNoFix(s, n) ==
    LET head_ref == s.head
        s1 == [s EXCEPT !.next[n] = StrongLink(head_ref),
                        !.prev[head_ref] = WeakLink(n)]
    IN [s1 EXCEPT !.head = n]

\* A faulty insert_front branch: the old head's prev is not re-pointed to the
\* new node.
PushFrontLinksNoHeadPrev(s, n) ==
    LET head_ref == s.head
        s1 == [s EXCEPT !.next[n] = StrongLink(head_ref)]
        s2 == IF SizeOf(s) = 1 THEN [s1 EXCEPT !.next[head_ref] = WeakLink(n)]
              ELSE s1
    IN [s2 EXCEPT !.head = n]

\* A faulty insert_front branch: the handle's tail, not its head, is set to
\* the new node.
PushFrontLinksSetsTail(s, n) ==
    LET head_ref == s.head
        s1 == [s EXCEPT !.next[n] = StrongLink(head_ref),
                        !.prev[head_ref] = WeakLink(n)]
        s2 == IF SizeOf(s) = 1 THEN [s1 EXCEPT !.next[head_ref] = WeakLink(n)]
              ELSE s1
    IN [s2 EXCEPT !.tail = n]

\* CdlList::push, the insert_front branch of a non-empty list.
PushFrontLinks(s, n) ==
    LET head_ref == s.head
        s1 == [s EXCEPT !.next[n] = StrongLink(head_ref),
                        !.prev[head_ref] = WeakLink(n)]
        s2 == IF SizeOf(s) = 1 THEN [s1 EXCEPT !.next[head_ref] = WeakLink(n)]
              ELSE s1
    IN [s2 EXCEPT !.head = n]

\* A faulty push-back branch: the old tail's next is left as it was, so the
\* new node is never linked into the chain.
PushBackLinksNoTailNext(s, n) ==
    LET head_ref == s.head
        tail_ref == s.tail
        s1 == [s EXCEPT !.next[n] = WeakLink(head_ref)]
        s2 == IF s.size = 1 THEN [s1 EXCEPT !.prev[tail_ref] = WeakLink(n)]
              ELSE s1
    IN [s2 EXCEPT !.tail = n]

\* A faulty push-back branch: the new node's next is a StrongLink to head,
\* the reference cycle the code's comment warns of.
PushBackLinksStrongNext(s, n) ==
    LET head_ref == s.head
        tail_ref == s.tail
        s1 == [s EXCEPT !.next[n] = StrongLink(head_ref),
                        !.next[tail_ref] = StrongLink(n)]
        s2 == IF s.size = 1 THEN [s1 EXCEPT !.prev[tail_ref] = WeakLink(n)]
              ELSE s1
    IN [s2 EXCEPT !.tail = n]

\* A faulty push-back branch: the size == 1 special case is missing, so the
\* single old node's prev stays a self-reference.
PushBackLinksNoFix(s, n) ==
    LET head_ref == s.head
        tail_ref == s.tail
        s1 == [s EXCEPT !.next[n] = WeakLink(head_ref),
                        !.next[tail_ref] = StrongLink(n)]
    IN [s1 EXCEPT !.tail = n]

\* CdlList::push, the push-back branch of a non-empty list.
PushBackLinks(s, n) ==
    LET head_ref == s.head
        tail_ref == s.tail
        s1 == [s EXCEPT !.next[n] = WeakLink(head_ref),
                        !.next[tail_ref] = StrongLink(n)]
        s2 == IF s.size = 1 THEN [s1 EXCEPT !.prev[tail_ref] = WeakLink(n)]
              ELSE s1
    IN [s2 EXCEPT !.tail = n]

\* A faulty push: the size is only incremented in the non-empty branch.
pushSizeInElse(s, t, insert_front) ==
    LET n == FreshNode(s)
        s0 == AllocNode(s, n, t)
    IN IF is_empty(s)
       THEN Collect(PushEmpty(s0, n))
       ELSE IF s.head = NoNode \/ s.tail = NoNode
            THEN Panic(s)
            ELSE LET s1 == [s0 EXCEPT !.prev[n] = WeakLink(s.tail)]
                     s2 == IF insert_front THEN PushFrontLinks(s1, n)
                           ELSE PushBackLinks(s1, n)
                 IN Collect([s2 EXCEPT !.size = @ + 1])

\* CdlList::push
push(s, t, insert_front) ==
    LET n == FreshNode(s)
        s0 == AllocNode(s, n, t)
    IN IF is_empty(s)
       THEN Collect([PushEmpty(s0, n) EXCEPT !.size = @ + 1])
       ELSE IF s.head = NoNode \/ s.tail = NoNode
            THEN Panic(s)
            ELSE LET s1 == [s0 EXCEPT !.prev[n] = WeakLink(s.tail)]
                     s2 == IF insert_front THEN PushFrontLinks(s1, n)
                           ELSE PushBackLinks(s1, n)
                 IN Collect([s2 EXCEPT !.size = @ + 1])

\* A faulty push_front: it passes the flag of push_back.
push_frontWrongFlag(s, t) == push(s, t, FALSE)

\* CdlList::push_front
push_front(s, t) == push(s, t, TRUE)

\* CdlList::push_back
push_back(s, t) == push(s, t, FALSE)

\* -------------------------------------------------------------------- pop
\* CdlList::pop, the branch where the list had exactly one node: drop head,
\* then Rc::try_unwrap(tail).
PopLast(s) ==
    IF s.head = NoNode THEN [st |-> Panic(s), ret |-> None]
    ELSE LET s1 == Collect([s EXCEPT !.head = NoNode])
             t == s1.tail
             s2 == [s1 EXCEPT !.tail = NoNode]
         IN IF t = NoNode \/ t \notin s1.alive \/ StrongCount(s2, t) # 0
            THEN [st |-> Panic(s1), ret |-> None]
            ELSE [st |-> Collect(s2), ret |-> s1.data[t]]

\* A faulty pop_front branch: the tail's next is not re-pointed to the new
\* head.
PopFrontLinksNoTailNext(s) ==
    LET h == s.head
        s1 == [s EXCEPT !.head = NoNode]
    IN IF h = NoNode \/ StrongCount(s1, h) # 0 \/ s1.next[h].kind # "Strong"
          \/ s1.tail = NoNode
       THEN [st |-> Panic(s), ret |-> None]
       ELSE LET sl == s1.next[h].ref
                s2 == [s1 EXCEPT !.prev[sl] = WeakLink(s1.tail)]
                s4 == [s2 EXCEPT !.head = sl]
            IN [st |-> Collect(FreeNode(s4, h)), ret |-> s.data[h]]

\* A faulty pop_front branch: the successor's prev is not re-pointed to the
\* tail.
PopFrontLinksNoSuccPrev(s) ==
    LET h == s.head
        s1 == [s EXCEPT !.head = NoNode]
    IN IF h = NoNode \/ StrongCount(s1, h) # 0 \/ s1.next[h].kind # "Strong"
          \/ s1.tail = NoNode
       THEN [st |-> Panic(s), ret |-> None]
       ELSE LET sl == s1.next[h].ref
                s3 == [s1 EXCEPT !.next[s1.tail] = WeakLink(sl)]
                s4 == [s3 EXCEPT !.head = sl]
            IN [st |-> Collect(FreeNode(s4, h)), ret |-> s.data[h]]

\* CdlList::pop, the pop_front branch of a list of more than one node.
PopFrontLinks(s) ==
    LET h == s.head
        s1 == [s EXCEPT !.head = NoNode]
    IN IF h = NoNode \/ StrongCount(s1, h) # 0 \/ s1.next[h].kind # "Strong"
          \/ s1.tail = NoNode
       THEN [st |-> Panic(s), ret |-> None]
       ELSE LET sl == s1.next[h].ref
                s2 == [s1 EXCEPT !.prev[sl] = WeakLink(s1.tail)]
                s3 == [s2 EXCEPT !.next[s2.tail] = WeakLink(sl)]
                s4 == [s3 EXCEPT !.head = sl]
            IN [st |-> Collect(FreeNode(s4, h)), ret |-> s.data[h]]

\* A faulty pop-back branch: the predecessor's StrongLink to the tail is not
\* broken before the tail is consumed.
PopBackUnlinkSkipped(s) ==
    LET t == s.tail
    IN IF t = NoNode \/ s.prev[t].kind # "Weak" THEN Panic(s) ELSE s

\* CdlList::pop, the pop-back branch, first block: tail->prev->next becomes a
\* WeakLink to head, which releases the predecessor's StrongLink to the tail.
PopBackUnlink(s) ==
    LET t == s.tail
    IN IF t = NoNode \/ s.prev[t].kind # "Weak" THEN Panic(s)
       ELSE LET up == s.prev[t].ref
            IN IF up \notin s.alive \/ up = t \/ s.head = NoNode THEN Panic(s)
               ELSE [s EXCEPT !.next[up] = WeakLink(s.head)]

\* A faulty second block: head->prev is not re-pointed to the new tail.
PopBackLinksNoHeadPrev(s) ==
    LET t == s.tail
        s1 == [s EXCEPT !.tail = NoNode]
    IN IF StrongCount(s1, t) # 0 \/ s1.prev[t].kind # "Weak" \/ s1.head = NoNode
       THEN [st |-> Panic(s), ret |-> None]
       ELSE LET wl == s1.prev[t].ref
            IN IF wl \notin s1.alive THEN [st |-> Panic(s1), ret |-> None]
               ELSE [st |-> Collect(FreeNode([s1 EXCEPT !.tail = wl], t)),
                     ret |-> s.data[t]]

\* CdlList::pop, the pop-back branch, second block: Rc::try_unwrap(tail),
\* head->prev and tail become the old tail's predecessor.
PopBackLinks(s) ==
    LET t == s.tail
        s1 == [s EXCEPT !.tail = NoNode]
    IN IF StrongCount(s1, t) # 0 \/ s1.prev[t].kind # "Weak" \/ s1.head = NoNode
       THEN [st |-> Panic(s), ret |-> None]
       ELSE LET wl == s1.prev[t].ref
                s2 == [s1 EXCEPT !.prev[s1.head] = WeakLink(wl)]
            IN IF wl \notin s2.alive THEN [st |-> Panic(s2), ret |-> None]
               ELSE [st |-> Collect(FreeNode([s2 EXCEPT !.tail = wl], t)),
                     ret |-> s.data[t]]

\* A faulty pop: no early return on an empty list, so `self.size -= 1` runs
\* with size 0 and the subtraction overflows (a panic).
popNoEarlyReturn(s, pop_front) ==
    IF is_empty(s) THEN [st |-> Panic(s), ret |-> None]
    ELSE LET s1 == [s EXCEPT !.size = @ - 1]
         IN IF is_empty(s1) THEN PopLast(s1)
            ELSE IF pop_front THEN PopFrontLinks(s1)
            ELSE LET s2 == PopBackUnlink(s1)
                 IN IF s2.panicked THEN [st |-> s2, ret |-> None]
                    ELSE PopBackLinks(s2)

\* CdlList::pop
pop(s, pop_front) ==
    IF is_empty(s) THEN [st |-> s, ret |-> None]
    ELSE LET s1 == [s EXCEPT !.size = @ - 1]
         IN IF is_empty(s1) THEN PopLast(s1)
            ELSE IF pop_front THEN PopFrontLinks(s1)
            ELSE LET s2 == PopBackUnlink(s1)
                 IN IF s2.panicked THEN [st |-> s2, ret |-> None]
                    ELSE PopBackLinks(s2)

\* A faulty pop_front: it passes the flag of pop_back.
pop_frontWrongFlag(s) == pop(s, FALSE)

\* CdlList::pop_front
pop_front(s) == pop(s, TRUE)

\* A faulty pop_back: it passes the flag of pop_front.
pop_backWrongFlag(s) == pop(s, TRUE)

\* CdlList::pop_back
pop_back(s) == pop(s, FALSE)

\* ------------------------------------------------------------------- peek
\* A faulty peek: both branches read head.
peekAlwaysHead(s, peek_front) ==
    IF is_empty(s) THEN None
    ELSE IF s.head = NoNode THEN None ELSE s.data[s.head]

\* CdlList::peek: a Ref to the data of head or tail; nothing is written.
peek(s, peek_front) ==
    IF is_empty(s) THEN None
    ELSE IF peek_front
         THEN (IF s.head = NoNode THEN None ELSE s.data[s.head])
         ELSE (IF s.tail = NoNode THEN None ELSE s.data[s.tail])

\* CdlList::peek_front
peek_front(s) == peek(s, TRUE)

\* CdlList::peek_back
peek_back(s) == peek(s, FALSE)

\* -------------------------------------------------------------- insert_at
\* The loop of insert_at (and of remove_at): from node_ref, follow `steps`
\* StrongLink next fields; NoNode when a next is not a StrongLink (a panic).
RECURSIVE Walk(_, _, _)
Walk(s, node_ref, steps) ==
    IF steps = 0 \/ node_ref = NoNode THEN node_ref
    ELSE IF s.next[node_ref].kind = "Strong"
         THEN Walk(s, s.next[node_ref].ref, steps - 1)
         ELSE NoNode

\* A faulty insert_at: the loop runs `index` times instead of `index - 1`.
InsertLinksWalkTooFar(s, index, val) ==
    LET n == FreshNode(s)
        s0 == AllocNode(s, n, val)
        node_ref == Walk(s0, s0.head, index)
    IN IF node_ref = NoNode \/ s0.next[node_ref].kind # "Strong"
       THEN Panic(s)
       ELSE LET sl == s0.next[node_ref].ref
            IN IF sl = node_ref THEN Panic(s)
               ELSE Collect([s0 EXCEPT !.next[node_ref] = StrongLink(n),
                                       !.prev[sl] = WeakLink(n),
                                       !.next[n] = StrongLink(sl),
                                       !.prev[n] = WeakLink(node_ref),
                                       !.size = @ + 1])

\* A faulty insert_at: the new node's prev is a StrongLink to its predecessor.
InsertLinksStrongPrev(s, index, val) ==
    LET n == FreshNode(s)
        s0 == AllocNode(s, n, val)
        node_ref == Walk(s0, s0.head, index - 1)
    IN IF node_ref = NoNode \/ s0.next[node_ref].kind # "Strong"
       THEN Panic(s)
       ELSE LET sl == s0.next[node_ref].ref
            IN IF sl = node_ref THEN Panic(s)
               ELSE Collect([s0 EXCEPT !.next[node_ref] = StrongLink(n),
                                       !.prev[sl] = WeakLink(n),
                                       !.next[n] = StrongLink(sl),
                                       !.prev[n] = StrongLink(node_ref),
                                       !.size = @ + 1])

\* A faulty insert_at: the successor's prev is left observing the predecessor.
InsertLinksNoSuccPrev(s, index, val) ==
    LET n == FreshNode(s)
        s0 == AllocNode(s, n, val)
        node_ref == Walk(s0, s0.head, index - 1)
    IN IF node_ref = NoNode \/ s0.next[node_ref].kind # "Strong"
       THEN Panic(s)
       ELSE LET sl == s0.next[node_ref].ref
            IN IF sl = node_ref THEN Panic(s)
               ELSE Collect([s0 EXCEPT !.next[node_ref] = StrongLink(n),
                                       !.next[n] = StrongLink(sl),
                                       !.prev[n] = WeakLink(node_ref),
                                       !.size = @ + 1])

\* CdlList::insert_at, the part after the three early returns.
InsertLinks(s, index, val) ==
    LET n == FreshNode(s)
        s0 == AllocNode(s, n, val)
        node_ref == Walk(s0, s0.head, index - 1)
    IN IF node_ref = NoNode \/ s0.next[node_ref].kind # "Strong"
       THEN Panic(s)
       ELSE LET sl == s0.next[node_ref].ref
            IN IF sl = node_ref THEN Panic(s)
               ELSE Collect([s0 EXCEPT !.next[node_ref] = StrongLink(n),
                                       !.prev[sl] = WeakLink(n),
                                       !.next[n] = StrongLink(sl),
                                       !.prev[n] = WeakLink(node_ref),
                                       !.size = @ + 1])

\* A faulty insert_at: an index past the end is clamped to a push_back.
insert_atClamped(s, index, val) ==
    IF index = 0 THEN push_front(s, val)
    ELSE IF index >= SizeOf(s) THEN push_back(s, val)
    ELSE InsertLinks(s, index, val)

\* CdlList::insert_at
insert_at(s, index, val) ==
    IF index = 0 THEN push_front(s, val)
    ELSE IF index = SizeOf(s) THEN push_back(s, val)
    ELSE IF index > SizeOf(s) THEN s
    ELSE InsertLinks(s, index, val)

\* -------------------------------------------------------------- remove_at
\* CdlList::remove_at, an interior index: the predecessor's next becomes a
\* StrongLink to the target's successor, whose prev observes the predecessor.
RemoveLinks(s, index) ==
    LET pred == Walk(s, s.head, index - 1)
    IN IF pred = NoNode \/ s.next[pred].kind # "Strong"
       THEN [st |-> Panic(s), ret |-> None]
       ELSE LET target == s.next[pred].ref
            IN IF s.next[target].kind # "Strong"
               THEN [st |-> Panic(s), ret |-> None]
               ELSE LET succ == s.next[target].ref
                    IN [st |-> Collect([s EXCEPT !.next[pred] = StrongLink(succ),
                                                 !.prev[succ] = WeakLink(pred),
                                                 !.size = @ - 1]),
                        ret |-> s.data[target]]

\* A faulty remove_at: an index past the end is clamped to a pop_back.
remove_atClamped(s, index) ==
    IF index = 0 THEN pop_front(s)
    ELSE IF index >= SizeOf(s) - 1 THEN pop_back(s)
    ELSE RemoveLinks(s, index)

\* CdlList::remove_at
remove_at(s, index) ==
    IF index >= SizeOf(s) THEN [st |-> s, ret |-> None]
    ELSE IF index = 0 THEN pop_front(s)
    ELSE IF index = SizeOf(s) - 1 THEN pop_back(s)
    ELSE RemoveLinks(s, index)

\* ---------------------------------------------------------------- display
\* What fmt wrote: "None" for an empty list, else one item per loop round;
\* `steps` counts the rounds, `advances` the rounds that moved to the next
\* node (a StrongLink) and `at` is the node the loop ended on; a next of None
\* makes unwrap() panic.
Rendering(none, items, steps, advances, at, failed) ==
    [none |-> none, items |-> items, steps |-> steps, advances |-> advances,
     at |-> at, panicked |-> failed]

\* A faulty loop: the node is replaced by its next whatever the link's kind.
RECURSIVE DisplayLoopAnyLink(_, _, _, _)
DisplayLoopAnyLink(s, node, count, out) ==
    IF ~(count < SizeOf(s)) THEN out
    ELSE IF node \notin s.alive \/ s.next[node].kind = "None"
         THEN [out EXCEPT !.panicked = TRUE]
         ELSE DisplayLoopAnyLink(s, s.next[node].ref, count + 1,
                                 [out EXCEPT !.items = Append(@, s.data[node]),
                                             !.steps = @ + 1,
                                             !.advances = @ + 1,
                                             !.at = s.next[node].ref])

\* Display for CdlList, the while loop.
RECURSIVE DisplayLoop(_, _, _, _)
DisplayLoop(s, node, count, out) ==
    IF ~(count < SizeOf(s)) THEN out
    ELSE IF node \notin s.alive \/ s.next[node].kind = "None"
         THEN [out EXCEPT !.panicked = TRUE]
         ELSE LET nxt == s.next[node]
                  strong == nxt.kind = "Strong"
                  to == IF strong THEN nxt.ref ELSE node
              IN DisplayLoop(s, to, count + 1,
                             [out EXCEPT !.items = Append(@, s.data[node]),
                                         !.steps = @ + 1,
                                         !.advances = IF strong THEN @ + 1 ELSE @,
                                         !.at = to])

\* Display for CdlList
fmt(s) ==
    IF is_empty(s) THEN Rendering(TRUE, <<>>, 0, 0, NoNode, FALSE)
    ELSE IF s.head = NoNode THEN Rendering(FALSE, <<>>, 0, 0, NoNode, TRUE)
    ELSE DisplayLoop(s, s.head, 0, Rendering(FALSE, <<>>, 0, 0, s.head, FALSE))

\* ------------------------------------------------------------------- drop
\* Drop for CdlList: `while self.pop_front().is_some() {}`, counting the pops
\* that returned a value.
RECURSIVE DropLoop(_, _)
DropLoop(s, count) ==
    LET r == pop_front(s)
    IN IF r.ret = None THEN [st |-> r.st, ret |-> count]
       ELSE DropLoop(r.st, count + 1)

\* A faulty drop: `if` in place of `while`, a single pop_front.
dropOnePop(s) ==
    LET r == pop_front(s)
    IN [st |-> r.st, ret |-> IF r.ret = None THEN 0 ELSE 1]

\* Drop for CdlList
drop(s) == DropLoop(s, 0)

\* After Drop::drop the fields of the handle are dropped: head and tail give
\* up the nodes they still hold.
DropFields(s) == Collect([s EXCEPT !.head = NoNode, !.tail = NoNode])

\* --------------------------------------------------------------- contents
\* The payloads met from node n over k nodes, following next of either kind.
RECURSIVE PayloadsFrom(_, _, _)
PayloadsFrom(s, n, k) ==
    IF k = 0 THEN <<>>
    ELSE IF n = NoNode \/ n \notin s.alive THEN <<None>>
    ELSE <<s.data[n]>> \o PayloadsFrom(s, s.next[n].ref, k - 1)

\* The nodes met from node n over k nodes, following next of either kind.
RECURSIVE NodesFrom(_, _, _)
NodesFrom(s, n, k) ==
    IF k = 0 \/ n = NoNode THEN <<>>
    ELSE <<n>> \o NodesFrom(s, s.next[n].ref, k - 1)

\* The nodes read by walking next from head for size nodes.
ListNodes(s) == NodesFrom(s, s.head, s.size)

\* The payloads read by walking next from head for size nodes.
Contents(s) == PayloadsFrom(s, s.head, s.size)

\* ----------------------------------------------------------- cell naming
\* Which cell Rc::new returns is the allocator's business and no handler looks
\* at an address, so a list is kept up to a renaming of its cells: after each
\* call the cells are renamed in the order head, head's successor, ... (along
\* StrongLink next fields), then any other live cell, then the freed cells a
\* WeakLink still names.
RECURSIVE ChainFrom(_, _, _)
ChainFrom(s, n, seen) ==
    IF n = NoNode \/ n \notin s.alive \/ n \in seen THEN <<>>
    ELSE <<n>> \o (IF s.next[n].kind = "Strong"
                   THEN ChainFrom(s, s.next[n].ref, seen \cup {n})
                   ELSE <<>>)

RECURSIVE Ascending(_)
Ascending(S) ==
    IF S = {} THEN <<>>
    ELSE LET m == CHOOSE x \in S : \A y \in S : x <= y
         IN <<m>> \o Ascending(S \ {m})

Range(q) == {q[k] : k \in 1..Len(q)}

\* Where a freed cell is first named when the live cells are read in order,
\* prev before next.
FirstMention(s, ord, d) ==
    CHOOSE j \in 2..(2 * Len(ord) + 1) :
        /\ IF j % 2 = 0 THEN s.prev[ord[j \div 2]] = WeakLink(d)
           ELSE s.next[ord[j \div 2]] = WeakLink(d)
        /\ \A i \in 2..(j - 1) :
              ~(IF i % 2 = 0 THEN s.prev[ord[i \div 2]] = WeakLink(d)
                ELSE s.next[ord[i \div 2]] = WeakLink(d))

RECURSIVE ByMention(_, _, _)
ByMention(s, ord, D) ==
    IF D = {} THEN <<>>
    ELSE LET m == CHOOSE x \in D :
                     \A y \in D : FirstMention(s, ord, x) <= FirstMention(s, ord, y)
         IN <<m>> \o ByMention(s, ord, D \ {m})

CellOrder(s) ==
    LET chain == ChainFrom(s, s.head, {})
        ord == chain \o Ascending(s.alive \ Range(chain))
    IN ord \o ByMention(s, ord, WeakTargets(s) \ s.alive)

Renamed(s) ==
    LET ord == CellOrder(s)
        n == Cardinality(s.alive)
        name(x) == IF x = NoNode THEN NoNode
                   ELSE CHOOSE k \in 1..Len(ord) : ord[k] = x
        link(l) == IF l.kind = "None" THEN l ELSE [kind |-> l.kind, ref |-> name(l.ref)]
    IN [head |-> name(s.head), tail |-> name(s.tail), size |-> s.size,
        next |-> [k \in NodeIds |-> IF k <= n THEN link(s.next[ord[k]]) ELSE NoLink],
        prev |-> [k \in NodeIds |-> IF k <= n THEN link(s.prev[ord[k]]) ELSE NoLink],
        data |-> [k \in NodeIds |-> IF k <= n THEN s.data[ord[k]] ELSE None],
        alive |-> 1..n, panicked |-> s.panicked]

\* ------------------------------------------------------ the plain sequence
\* insert_at on a plain sequence: v becomes element number i (from 0).
AbsInsert(q, i, v) ==
    IF i > Len(q) THEN q
    ELSE SubSeq(q, 1, i) \o <<v>> \o SubSeq(q, i + 1, Len(q))

\* remove_at on a plain sequence: element number i (from 0) is deleted.
AbsRemove(q, i) ==
    IF i >= Len(q) THEN q
    ELSE SubSeq(q, 1, i) \o SubSeq(q, i + 2, Len(q))

\* Element number i (from 0) of a plain sequence, None outside it.
AbsAt(q, i) == IF i >= Len(q) THEN None ELSE q[i + 1]

RECURSIVE Reverse(_)
Reverse(q) == IF q = <<>> THEN <<>> ELSE Reverse(Tail(q)) \o <<Head(q)>>

\* ------------------------------------------------------------------ calls
\* No insert_at(i, v) / remove_at(i) pair has just run.
NoUndo == [paired |-> FALSE, val |-> None, was |-> <<>>]

Call(name, index, val) == [name |-> name, index |-> index, val |-> val]

\* The caller's view of one finished call: the list it leaves, the value it
\* returned, and what the plain sequence did for the same call.
Finish(s, o, r, a, ar) ==
    \E c \in {Renamed(s)} :
        /\ head' = c.head
        /\ tail' = c.tail
        /\ size' = c.size
        /\ next' = c.next
        /\ prev' = c.prev
        /\ data' = c.data
        /\ alive' = c.alive
        /\ panicked' = c.panicked
        /\ op' = o
        /\ ret' = r
        /\ abs' = a
        /\ absRet' = ar
        /\ before' = Contents(Cur)
        /\ undo' = IF /\ o.name = "remove_at"
                      /\ op.name = "insert_at"
                      /\ op.index = o.index
                      /\ op.index <= Len(before)
                   THEN [paired |-> TRUE, val |-> op.val, was |-> before]
                   ELSE NoUndo

\* A caller only pushes while the model has room for one more node.
CanGrow == size < MaxSize /\ FreeCells(Cur) # {}

PushFrontCall(v) ==
    /\ ~panicked
    /\ CanGrow
    /\ Finish(push_front(Cur, v), Call("push_front", 0, v), None,
              <<v>> \o abs, None)

PushBackCall(v) ==
    /\ ~panicked
    /\ CanGrow
    /\ Finish(push_back(Cur, v), Call("push_back", 0, v), None,
              abs \o <<v>>, None)

PopFrontCall ==
    /\ ~panicked
    /\ LET r == pop_front(Cur)
       IN Finish(r.st, Call("pop_front", 0, None), r.ret,
                 IF abs = <<>> THEN abs ELSE Tail(abs),
                 IF abs = <<>> THEN None ELSE Head(abs))

PopBackCall ==
    /\ ~panicked
    /\ LET r == pop_back(Cur)
       IN Finish(r.st, Call("pop_back", 0, None), r.ret,
                 IF abs = <<>> THEN abs ELSE SubSeq(abs, 1, Len(abs) - 1),
                 IF abs = <<>> THEN None ELSE abs[Len(abs)])

PeekFrontCall ==
    /\ ~panicked
    /\ Finish(Cur, Call("peek_front", 0, None), peek_front(Cur), abs,
              IF abs = <<>> THEN None ELSE Head(abs))

PeekBackCall ==
    /\ ~panicked
    /\ Finish(Cur, Call("peek_back", 0, None), peek_back(Cur), abs,
              IF abs = <<>> THEN None ELSE abs[Len(abs)])

InsertAtCall(i, v) ==
    /\ ~panicked
    /\ i <= size => CanGrow
    /\ Finish(insert_at(Cur, i, v), Call("insert_at", i, v), None,
              AbsInsert(abs, i, v), None)

RemoveAtCall(i) ==
    /\ ~panicked
    /\ LET r == remove_at(Cur, i)
       IN Finish(r.st, Call("remove_at", i, None), r.ret, AbsRemove(abs, i),
                 AbsAt(abs, i))

DisplayCall ==
    /\ ~panicked
    /\ LET r == fmt(Cur)
       IN Finish(IF r.panicked THEN Panic(Cur) ELSE Cur,
                 Call("display", 0, None), r, abs, None)

\* The list goes out of scope. What it leaves is the state of CdlList::new(),
\* so a later call stands for a call on a list that is new.
DropCall ==
    /\ ~panicked
    /\ LET r == drop(Cur)
       IN Finish(DropFields(r.st), Call("drop", 0, None), r.ret, <<>>, None)

\* ---------------------------------------------------------------- actions
PushFront == (\E v \in Values : PushFrontCall(v)) /\ UNCHANGED <<countVars, tripVars>>

PushBack == (\E v \in Values : PushBackCall(v)) /\ UNCHANGED <<countVars, tripVars>>

PopFront == PopFrontCall /\ UNCHANGED <<countVars, tripVars>>

PopBack == PopBackCall /\ UNCHANGED <<countVars, tripVars>>

PeekFront == PeekFrontCall /\ UNCHANGED <<countVars, tripVars>>

PeekBack == PeekBackCall /\ UNCHANGED <<countVars, tripVars>>

InsertAt ==
    /\ \E i \in Indices, v \in Values : InsertAtCall(i, v)
    /\ UNCHANGED <<countVars, tripVars>>

RemoveAt == (\E i \in Indices : RemoveAtCall(i)) /\ UNCHANGED <<countVars, tripVars>>

Display == DisplayCall /\ UNCHANGED <<countVars, tripVars>>

Drop == DropCall /\ UNCHANGED <<countVars, tripVars>>

\* The state after CdlList::new().
Init ==
    /\ head = new.head
    /\ tail = new.tail
    /\ size = new.size
    /\ next = new.next
    /\ prev = new.prev
    /\ data = new.data
    /\ alive = new.alive
    /\ panicked = new.panicked
    /\ op = Call("new", 0, None)
    /\ ret = None
    /\ abs = <<>>
    /\ absRet = None
    /\ before = <<>>
    /\ undo = NoUndo
    /\ pushes = 0
    /\ pops = 0
    /\ mode = "none"
    /\ pushed = <<>>
    /\ popped = <<>>

\* Every public operation of the crate.
Next ==
    \/ PushFront
    \/ PushBack
    \/ PopFront
    \/ PopBack
    \/ PeekFront
    \/ PeekBack
    \/ InsertAt
    \/ RemoveAt
    \/ Display
    \/ Drop

Spec == Init /\ [][Next]_vars

\* The public operations that src/src/cdl_list.rs defines.
NextCode ==
    \/ PushFront
    \/ PushBack
    \/ PopFront
    \/ PopBack
    \/ PeekFront
    \/ PeekBack
    \/ InsertAt
    \/ Display
    \/ Drop

SpecCode == Init /\ [][NextCode]_vars

\* ------------------------------------------------ the call-counting harness
\* As test_size: only push and pop calls, each counted by the caller.
CountPushFront ==
    /\ pushes < MaxCalls
    /\ \E v \in Values : PushFrontCall(v)
    /\ pushes' = pushes + 1
    /\ UNCHANGED <<pops, tripVars>>

CountPushBack ==
    /\ pushes < MaxCalls
    /\ \E v \in Values : PushBackCall(v)
    /\ pushes' = pushes + 1
    /\ UNCHANGED <<pops, tripVars>>

CountPopFront ==
    /\ PopFrontCall
    /\ pops' = IF ret' # None THEN pops + 1 ELSE pops
    /\ UNCHANGED <<pushes, tripVars>>

CountPopBack ==
    /\ PopBackCall
    /\ pops' = IF ret' # None THEN pops + 1 ELSE pops
    /\ UNCHANGED <<pushes, tripVars>>

NextCount == CountPushFront \/ CountPushBack \/ CountPopFront \/ CountPopBack

SpecCount == Init /\ [][NextCount]_vars

\* --------------------------------------------------- the round-trip harness
\* As test_pop_front / test_pop_back: push n payloads at one end of a new
\* list, then pop n times from one end.
TripModes == {"back_front", "front_front", "front_back"}

InitTrip ==
    /\ head = new.head
    /\ tail = new.tail
    /\ size = new.size
    /\ next = new.next
    /\ prev = new.prev
    /\ data = new.data
    /\ alive = new.alive
    /\ panicked = new.panicked
    /\ op = Call("new", 0, None)
    /\ ret = None
    /\ abs = <<>>
    /\ absRet = None
    /\ before = <<>>
    /\ undo = NoUndo
    /\ pushes = 0
    /\ pops = 0
    /\ mode \in TripModes
    /\ pushed = <<>>
    /\ popped = <<>>

TripPush ==
    /\ popped = <<>>
    /\ \E v \in Values :
          /\ IF mode = "back_front" THEN PushBackCall(v) ELSE PushFrontCall(v)
          /\ pushed' = Append(pushed, v)
    /\ UNCHANGED <<countVars, mode, popped>>

TripPop ==
    /\ Len(popped) < Len(pushed)
    /\ IF mode = "front_back" THEN PopBackCall ELSE PopFrontCall
    /\ popped' = Append(popped, ret')
    /\ UNCHANGED <<countVars, mode, pushed>>

NextTrip == TripPush \/ TripPop

SpecTrip == InitTrip /\ [][NextTrip]_vars

\* ================================================================= claims
\* C1: after any sequence of push_front, push_back, pop_front, pop_back and
\* insert_at calls on a new list, the payloads read by walking next from head
\* for size nodes are the plain sequence the same calls produce, and a pop
\* returns what the plain sequence returns (None when it is empty).
C1_Refinement ==
    /\ ~panicked
    /\ Contents(Cur) = abs
    /\ size = Len(abs)
    /\ op.name \in {"pop_front", "pop_back"} => ret = absRet

\* A pop_front that returned the first of three different-ended payloads.
C1_Witness ==
    /\ op.name = "pop_front"
    /\ ret = 2
    /\ abs = <<1, 1, 2>>
    /\ Contents(Cur) = abs

\* C2: with only push and pop calls, size() is the number of pushes minus the
\* number of pops that returned a value, and is_empty() holds exactly when
\* size() is 0.
C2_SizeCounts ==
    /\ SizeOf(Cur) = pushes - pops
    /\ is_empty(Cur) <=> SizeOf(Cur) = 0

\* A pop on an emptied list: it returned None and was not counted.
C2_Witness ==
    /\ op.name = "pop_back"
    /\ ret = None
    /\ pushes = 3
    /\ pops = 3
    /\ is_empty(Cur)

\* What the round trip that is being run must pop, in order.
TripExpected ==
    IF mode = "front_front" THEN Reverse(pushed) ELSE pushed

\* C3: push_back(v1..vn) then n pop_front return v1..vn; push_front(v1..vn)
\* then n pop_front return vn..v1, and n pop_back return v1..vn; the list is
\* empty afterwards.
C3_RoundTrip ==
    /\ \A k \in 1..Len(popped) : popped[k] = TripExpected[k]
    /\ (pushed # <<>> /\ Len(popped) = Len(pushed)) =>
          /\ popped = TripExpected
          /\ is_empty(Cur)
          /\ head = NoNode
          /\ tail = NoNode
          /\ alive = {}

\* Three payloads pushed to the front and popped from the front, reversed.
C3_Witness ==
    /\ mode = "front_front"
    /\ pushed = <<1, 1, 2>>
    /\ popped = <<2, 1, 1>>
    /\ is_empty(Cur)

\* The other two round trips, each run to its end.
C3_WitnessBack ==
    /\ mode \in {"back_front", "front_back"}
    /\ pushed = <<1, 2, 2>>
    /\ popped = pushed

\* C4: on an empty list pop_front, pop_back, peek_front and peek_back return
\* None and leave head, tail and size as they were (size is not decremented).
C4_EmptyAbsence ==
    [][(is_empty(Cur) /\ op'.name \in {"pop_front", "pop_back", "peek_front", "peek_back"})
         => (/\ ret' = None
             /\ ~panicked'
             /\ head' = head
             /\ tail' = tail
             /\ size' = size
             /\ size' = 0)]_vars

\* A pop_back that found the list empty.
C4_Witness ==
    /\ op.name = "pop_back"
    /\ before = <<>>
    /\ ret = None
    /\ is_empty(Cur)

\* C5: on a non-empty list peek_front returns the payload of the first element
\* and peek_back that of the last, and neither changes size, contents or a link.
C5_PeekFrame ==
    [][(~is_empty(Cur) /\ op'.name \in {"peek_front", "peek_back"})
         => (/\ ret' = IF op'.name = "peek_front" THEN Contents(Cur)[1]
                       ELSE Contents(Cur)[size]
             /\ ret' # None
             /\ UNCHANGED listVars)]_vars

\* A peek_back on a list whose first and last payloads differ.
C5_Witness ==
    /\ op.name = "peek_back"
    /\ ret = 2
    /\ before = <<1, 1, 2>>
    /\ Contents(Cur) = before

\* C6: for 0 <= i <= size, insert_at(i, v) turns contents s into
\* s[0..i) ++ [v] ++ s[i..size) and adds one to size; i = 0 is push_front and
\* i = size is push_back.
C6_InsertAt ==
    [][(op'.name = "insert_at" /\ op'.index <= size)
         => (/\ ~panicked'
             /\ Contents(Cur)' = AbsInsert(Contents(Cur), op'.index, op'.val)
             /\ size' = size + 1
             /\ op'.index = 0 => Cur' = Renamed(push_front(Cur, op'.val))
             /\ op'.index = size => Cur' = Renamed(push_back(Cur, op'.val)))]_vars

\* An insert_at that walked past the head: index 2 of a list of three.
C6_Witness ==
    /\ op = Call("insert_at", 2, 2)
    /\ before = <<1, 1, 1>>
    /\ Contents(Cur) = <<1, 1, 2, 1>>
    /\ size = 4

\* C7: insert_at(i, v) with i > size changes nothing: size, contents, head,
\* tail and every link stay, and no node holding v is left alive.
C7_InsertNoOp ==
    [][(op'.name = "insert_at" /\ op'.index > size)
         => (UNCHANGED listVars /\ ret' = None)]_vars

\* insert_at(size + 1, v) on a non-empty list.
C7_Witness ==
    /\ op.name = "insert_at"
    /\ size = 2
    /\ op.index = size + 1
    /\ before = Contents(Cur)
    /\ Cardinality(alive) = 2

\* C8: for i < size, remove_at(i) returns s[i], deletes position i from the
\* contents (the rest keeps its order) and subtracts one from size; i = 0 is
\* pop_front and i = size - 1 is pop_back.
C8_RemoveAt ==
    [][(op'.name = "remove_at" /\ op'.index < size)
         => (/\ ~panicked'
             /\ ret' = Contents(Cur)[op'.index + 1]
             /\ Contents(Cur)' = AbsRemove(Contents(Cur), op'.index)
             /\ size' = size - 1
             /\ op'.index = 0 =>
                   /\ Cur' = Renamed(pop_front(Cur).st)
                   /\ ret' = pop_front(Cur).ret
             /\ op'.index = size - 1 =>
                   /\ Cur' = Renamed(pop_back(Cur).st)
                   /\ ret' = pop_back(Cur).ret)]_vars

\* A remove_at of an interior element reached by a walk: index 2 of four.
C8_Witness ==
    /\ op = Call("remove_at", 2, None)
    /\ before = <<1, 1, 2, 1>>
    /\ ret = 2
    /\ Contents(Cur) = <<1, 1, 1>>

\* C9: remove_at(i) with i >= size (any index on an empty list included)
\* returns None and leaves size, contents and all links as they were.
C9_RemoveNoOp ==
    [][(op'.name = "remove_at" /\ op'.index >= size)
         => (ret' = None /\ UNCHANGED listVars)]_vars

\* remove_at(size) on a non-empty list.
C9_Witness ==
    /\ op.name = "remove_at"
    /\ size = 2
    /\ op.index = size
    /\ ret = None
    /\ before = Contents(Cur)

\* C10: for 0 <= i <= size, insert_at(i, v) followed by remove_at(i) returns v
\* and leaves the contents, their order and the size as before the insert.
C10_InsertRemove ==
    undo.paired =>
        /\ ~panicked
        /\ ret = undo.val
        /\ Contents(Cur) = undo.was
        /\ size = Len(undo.was)

\* insert_at(2, 2) into <<1, 1, 1>> undone by remove_at(2).
C10_Witness ==
    /\ undo.paired
    /\ op = Call("remove_at", 2, None)
    /\ undo.val = 2
    /\ undo.was = <<1, 1, 1>>
    /\ ret = 2


\* C11: no sequence of public operations reaches a fatal path: the list never
\* panics, and in every state a pop or an insert_at would find what it
\* unwraps: with size > 1 head's next is a StrongLink, tail's prev a WeakLink
\* that resolves to another live node, head has one owning holder and so has
\* tail once its predecessor's next is rewritten; with size 1 the node is held
\* by head and tail only; every walk of insert_at meets StrongLinks only and
\* never borrows one cell twice.
C11_NoFatal ==
    /\ ~panicked
    /\ size > 1 =>
          /\ next[head].kind = "Strong"
          /\ prev[tail].kind = "Weak"
          /\ prev[tail].ref \in alive
          /\ prev[tail].ref # tail
          /\ StrongCount(Cur, head) = 1
          /\ ~PopBackUnlink(Cur).panicked
          /\ StrongCount(PopBackUnlink(Cur), tail) = 1
    /\ size = 1 =>
          /\ head = tail
          /\ StrongCount(Cur, tail) = 2
    /\ \A i \in 1..(size - 1) :
          LET node_ref == Walk(Cur, head, i - 1)
          IN /\ node_ref # NoNode
             /\ next[node_ref].kind = "Strong"
             /\ next[node_ref].ref # node_ref

\* A pop_back that took the tail off a list of three.
C11_Witness ==
    /\ op.name = "pop_back"
    /\ Len(before) = 3
    /\ ret = before[3]
    /\ size = 2
    /\ ~panicked


\* C12: the live nodes are exactly the size nodes reached from head by
\* following next; a node taken out by pop_front, pop_back or remove_at is
\* freed when the call returns; no node the handle still reaches is freed.
C12_LiveNodes ==
    /\ Cardinality(alive) = size
    /\ Len(ListNodes(Cur)) = size
    /\ Range(ListNodes(Cur)) = alive
    /\ size > 0 => (head \in alive /\ tail \in alive)
    /\ \A n \in alive :
          /\ next[n].kind = "Strong" => next[n].ref \in alive
          /\ prev[n].kind = "Strong" => prev[n].ref \in alive
    /\ (op.name \in {"pop_front", "pop_back", "remove_at"} /\ ret # None) =>
          Cardinality(alive) = Len(before) - 1

\* A remove_at that freed an interior node of a list of four.
C12_Witness ==
    /\ op = Call("remove_at", 1, None)
    /\ Len(before) = 4
    /\ ret = before[2]
    /\ Cardinality(alive) = 3


\* C13: dropping a list of any size n runs pop_front until it returns None:
\* that takes exactly n successful pops and ends with head = tail = none,
\* size = 0 and no node alive.
C13_DropAll ==
    /\ LET r == drop(Cur)
       IN /\ r.ret = size
          /\ ~r.st.panicked
          /\ r.st.head = NoNode
          /\ r.st.tail = NoNode
          /\ r.st.size = 0
          /\ r.st.alive = {}
    /\ op.name = "drop" =>
          /\ ret = Len(before)
          /\ ~panicked
          /\ head = NoNode
          /\ tail = NoNode
          /\ size = 0
          /\ alive = {}

\* A list of four that was dropped.
C13_Witness ==
    /\ op.name = "drop"
    /\ Len(before) = 4
    /\ ret = 4
    /\ alive = {}


\* C14: the display traversal of a list of size n renders exactly n payloads
\* front to back, moves only through StrongLink next fields (the tail's
\* WeakLink is met on the last round and not followed), ends after n rounds
\* and leaves head, tail, size and every link as they were; an empty list
\* renders as "None".
C14_Display ==
    [][op'.name = "display"
         => (/\ ret' = fmt(Cur)
             /\ UNCHANGED listVars
             /\ ~ret'.panicked
             /\ ret'.none <=> is_empty(Cur)
             /\ ret'.items = Contents(Cur)
             /\ ret'.items = abs
             /\ ret'.steps = size
             /\ ~is_empty(Cur) => (ret'.advances = size - 1 /\ ret'.at = tail)
             /\ is_empty(Cur) => ret'.items = <<>>)]_vars

\* A list of three rendered front to back.
C14_Witness ==
    /\ op.name = "display"
    /\ ret.items = <<1, 2, 2>>
    /\ ret.steps = 3
    /\ ret.advances = 2
    /\ Contents(Cur) = ret.items

\* An empty list rendered as "None".
C14_WitnessEmpty ==
    /\ op.name = "display"
    /\ ret.none
    /\ is_empty(Cur)


\* C15: after every public operation that leaves size >= 1, every node's next
\* is a StrongLink except the tail's, which is a WeakLink to the current head.
C15_TailNextObservesHead ==
    size >= 1 =>
        \A n \in alive :
            IF n = tail THEN next[n] = WeakLink(head)
            ELSE next[n].kind = "Strong"

\* C16: after every public operation that leaves size >= 1, head and tail
\* point to each other backwards too: the head's prev targets the current tail.
C16_HeadPrevObservesTail ==
    size >= 1 => (prev[head].kind # "None" /\ prev[head].ref = tail)



\* C17: after every call that leaves size >= 1, exactly one next link of a
\* live node is not a StrongLink, the tail's, and it is a WeakLink; the chain
\* of StrongLink next fields from head visits every live node exactly once,
\* visits exactly size nodes and ends at the node tail refers to.
C17_OwningChain ==
    size >= 1 =>
        LET chain == ChainFrom(Cur, head, {})
        IN /\ {n \in alive : next[n].kind # "Strong"} = {tail}
           /\ next[tail].kind = "Weak"
           /\ Len(chain) = size
           /\ Cardinality(Range(chain)) = Len(chain)
           /\ Range(chain) = alive
           /\ chain[Len(chain)] = tail

\* An interior insert_at that left a chain of four nodes.
C17_Witness ==
    /\ op.name = "insert_at"
    /\ op.index = 2
    /\ Len(before) = 3
    /\ size = 4
    /\ Len(ChainFrom(Cur, head, {})) = 4
    /\ next[tail].kind = "Weak"


\* C18: after every call, every live node's prev is a WeakLink: no operation
\* stores a StrongLink (or leaves None) in a prev field.
C18_PrevObserving ==
    \A n \in alive : prev[n].kind = "Weak"

\* An interior insert_at wrote the prev of the new node and of its successor.
C18_Witness ==
    /\ op.name = "insert_at"
    /\ op.index = 1
    /\ Len(before) = 2
    /\ size = 3
    /\ \A n \in alive : prev[n].kind = "Weak"



\* The live nodes a node holds a StrongLink to.
OwnedBy(s, n) ==
    {m \in s.alive : s.next[n] = StrongLink(m) \/ s.prev[n] = StrongLink(m)}

\* The nodes reached from the set S over at most k StrongLinks.
RECURSIVE OwnedFrom(_, _, _)
OwnedFrom(s, S, k) ==
    IF k = 0 THEN S
    ELSE OwnedFrom(s, S \cup UNION {OwnedBy(s, m) : m \in S}, k - 1)

InOwnershipCycle(s, n) ==
    n \in OwnedFrom(s, OwnedBy(s, n), Cardinality(NodeIds))

\* C19: after every call, with size >= 2 the head node has one owning holder
\* (the handle's head), every interior node one (its predecessor's next) and
\* the tail node two (the handle's tail and its predecessor's next); with
\* size = 1 the sole node has two (the handle's head and tail); no node is
\* held by a cycle of StrongLinks.
C19_Holders ==
    /\ size >= 2 =>
          LET nodes == ListNodes(Cur)
          IN /\ Len(nodes) = size
             /\ Range(nodes) = alive
             /\ nodes[1] = head
             /\ nodes[size] = tail
             /\ head # tail
             /\ StrongCount(Cur, head) = 1
             /\ \A i \in 2..size :
                   /\ next[nodes[i - 1]] = StrongLink(nodes[i])
                   /\ StrongCount(Cur, nodes[i]) = IF i = size THEN 2 ELSE 1
    /\ size = 1 =>
          /\ head = tail
          /\ alive = {head}
          /\ StrongCount(Cur, head) = 2
          /\ OwnedBy(Cur, head) = {}
    /\ \A n \in alive : ~InOwnershipCycle(Cur, n)

\* A pop_back that left three nodes: the new tail gained the handle's tail as
\* its second holder.
C19_Witness ==
    /\ op.name = "pop_back"
    /\ Len(before) = 4
    /\ size = 3
    /\ StrongCount(Cur, tail) = 2
    /\ StrongCount(Cur, head) = 1



\* C20: after any sequence of push, pop, insert_at and remove_at calls, every
\* WeakLink stored in a node of the list (every prev, and the tail's next)
\* resolves: its target is alive and is one of the nodes of the list; no
\* WeakLink names a freed node.
C20_WeakLinksResolve ==
    \A n \in Range(ListNodes(Cur)) :
        /\ prev[n].kind = "Weak" =>
              (prev[n].ref \in alive /\ prev[n].ref \in Range(ListNodes(Cur)))
        /\ next[n].kind = "Weak" =>
              (next[n].ref \in alive /\ next[n].ref \in Range(ListNodes(Cur)))



\* C21: whenever size = 1 after a call, head and tail refer to the same node
\* and that node's next and prev are both WeakLinks to the node itself;
\* whenever size = 0, head and tail are both none; head or tail is none only
\* when size = 0.
C21_OneAndNone ==
    /\ size = 1 =>
          /\ head # NoNode
          /\ head = tail
          /\ next[head] = WeakLink(head)
          /\ prev[head] = WeakLink(head)
    /\ size = 0 => (head = NoNode /\ tail = NoNode)
    /\ (head = NoNode \/ tail = NoNode) => size = 0

\* A pop_front that took a list of two down to one node.
C21_Witness ==
    /\ op.name = "pop_front"
    /\ Len(before) = 2
    /\ size = 1
    /\ head = tail
    /\ next[head] = WeakLink(head)

\* A pop_back that emptied a list of one.
C21_WitnessEmpty ==
    /\ op.name = "pop_back"
    /\ Len(before) = 1
    /\ size = 0
    /\ head = NoNode



\* C22: push_front(v) on a non-empty list ends with head referring to the new
\* node, the new node's next a StrongLink to the old head, the old head's prev
\* a WeakLink to the new node and the new node's prev a WeakLink to the tail;
\* when the list had exactly one node, that node's next is rewritten from its
\* self-reference to a WeakLink to the new node.
C22_PushFront ==
    [][(op'.name = "push_front" /\ size >= 1)
         => \E n \in {FreshNode(Cur)}, s \in {push_front(Cur, op'.val)} :
               /\ Cur' = Renamed(s)
               /\ n \notin alive
               /\ s.alive = alive \cup {n}
               /\ s.data[n] = op'.val
               /\ s.head = n
               /\ s.next[n] = StrongLink(head)
               /\ s.prev[head] = WeakLink(n)
               /\ s.prev[n] = WeakLink(s.tail)
               /\ size = 1 => (/\ next[head] = WeakLink(head)
                               /\ s.next[head] = WeakLink(n))
               /\ next'[head'].kind = "Strong"
               /\ prev'[next'[head'].ref] = WeakLink(head')
               /\ prev'[head'] = WeakLink(tail')]_vars

\* A push_front onto a list of one: the old node's next now observes the new
\* head.
C22_Witness ==
    /\ op.name = "push_front"
    /\ Len(before) = 1
    /\ size = 2
    /\ next[head] = StrongLink(tail)
    /\ next[tail] = WeakLink(head)
    /\ prev[tail] = WeakLink(head)

\* A push_front onto a list of three.
C22_WitnessLonger ==
    /\ op.name = "push_front"
    /\ Len(before) = 3
    /\ size = 4
    /\ prev[head] = WeakLink(tail)



\* C23: push_back(v) on a non-empty list ends with tail referring to the new
\* node, the new node's next a WeakLink to the head, the new node's prev a
\* WeakLink to the old tail and the old tail's next a StrongLink to the new
\* node; when the list had exactly one node, that node's prev is rewritten
\* from its self-reference to a WeakLink to the new node.
C23_PushBack ==
    [][(op'.name = "push_back" /\ size >= 1)
         => \E n \in {FreshNode(Cur)}, s \in {push_back(Cur, op'.val)} :
               /\ Cur' = Renamed(s)
               /\ n \notin alive
               /\ s.alive = alive \cup {n}
               /\ s.data[n] = op'.val
               /\ s.tail = n
               /\ s.next[n] = WeakLink(s.head)
               /\ s.prev[n] = WeakLink(tail)
               /\ s.next[tail] = StrongLink(n)
               /\ size = 1 => (/\ prev[tail] = WeakLink(tail)
                               /\ s.prev[tail] = WeakLink(n))
               /\ next'[tail'] = WeakLink(head')
               /\ prev'[tail'].kind = "Weak"
               /\ next'[prev'[tail'].ref] = StrongLink(tail')]_vars

\* A push_back onto a list of one: the old node's prev now observes the new
\* tail.
C23_Witness ==
    /\ op.name = "push_back"
    /\ Len(before) = 1
    /\ size = 2
    /\ next[head] = StrongLink(tail)
    /\ prev[head] = WeakLink(tail)
    /\ next[tail] = WeakLink(head)

\* A push_back onto a list of three.
C23_WitnessLonger ==
    /\ op.name = "push_back"
    /\ Len(before) = 3
    /\ size = 4
    /\ next[tail] = WeakLink(head)



\* C24: pop_front on a list of size > 1 returns the old head's payload and
\* ends with head referring to the old head's successor, the tail's next a
\* WeakLink to that successor and the successor's prev a WeakLink to the tail.
C24_PopFront ==
    [][(op'.name = "pop_front" /\ size > 1)
         => \E r \in {pop_front(Cur)} :
            LET s == r.st
                succ == next[head].ref
            IN /\ Cur' = Renamed(s)
               /\ ret' = r.ret
               /\ r.ret = data[head]
               /\ next[head].kind = "Strong"
               /\ succ \in alive
               /\ head \notin s.alive
               /\ s.head = succ
               /\ s.next[s.tail] = WeakLink(succ)
               /\ s.prev[succ] = WeakLink(s.tail)
               /\ ret' = before'[1]
               /\ next'[tail'] = WeakLink(head')
               /\ prev'[head'] = WeakLink(tail')]_vars

\* A pop_front on a list of three: the tail's next observes the new head.
C24_Witness ==
    /\ op.name = "pop_front"
    /\ Len(before) = 3
    /\ size = 2
    /\ ret = before[1]
    /\ next[tail] = WeakLink(head)
    /\ prev[head] = WeakLink(tail)



\* C25: pop_back on a list of size > 1 returns the old tail's payload and ends
\* with tail referring to the old tail's predecessor, that predecessor's next
\* rewritten from a StrongLink to the old tail into a WeakLink to the head,
\* and the head's prev a WeakLink to the predecessor.
C25_PopBack ==
    [][(op'.name = "pop_back" /\ size > 1)
         => \E r \in {pop_back(Cur)} :
            LET s == r.st
                pred == prev[tail].ref
            IN /\ Cur' = Renamed(s)
               /\ ret' = r.ret
               /\ r.ret = data[tail]
               /\ pred \in alive
               /\ next[pred] = StrongLink(tail)
               /\ tail \notin s.alive
               /\ s.tail = pred
               /\ s.next[pred] = WeakLink(s.head)
               /\ s.prev[s.head] = WeakLink(pred)
               /\ ret' = before'[Len(before')]
               /\ next'[tail'] = WeakLink(head')
               /\ prev'[head'] = WeakLink(tail')]_vars

\* A pop_back on a list of three: the head's prev observes the new tail.
C25_Witness ==
    /\ op.name = "pop_back"
    /\ Len(before) = 3
    /\ size = 2
    /\ ret = before[3]
    /\ next[tail] = WeakLink(head)
    /\ prev[head] = WeakLink(tail)



\* C26: insert_at(i, v) with 0 < i < size reaches the node at position i - 1
\* by following exactly i - 1 StrongLink next fields from head and ends with
\* that predecessor's next a StrongLink to the new node, the new node's next a
\* StrongLink to the former successor, the new node's prev a WeakLink to the
\* predecessor and the successor's prev a WeakLink to the new node.
C26_InsertLinks ==
    [][(op'.name = "insert_at" /\ 0 < op'.index /\ op'.index < size)
         => \E n \in {FreshNode(Cur)},
               s \in {insert_at(Cur, op'.index, op'.val)},
               nodes \in {ListNodes(Cur)},
               after \in {ListNodes(Cur)'} :
            LET i == op'.index
                pred == nodes[i]
                succ == nodes[i + 1]
            IN /\ Cur' = Renamed(s)
               /\ n \notin alive
               /\ s.data[n] = op'.val
               /\ \A k \in 1..(i - 1) : next[nodes[k]] = StrongLink(nodes[k + 1])
               /\ pred = Walk(Cur, head, i - 1)
               /\ next[pred] = StrongLink(succ)
               /\ s.next[pred] = StrongLink(n)
               /\ s.next[n] = StrongLink(succ)
               /\ s.prev[n] = WeakLink(pred)
               /\ s.prev[succ] = WeakLink(n)
               /\ data'[after[i + 1]] = op'.val
               /\ next'[after[i]] = StrongLink(after[i + 1])
               /\ next'[after[i + 1]] = StrongLink(after[i + 2])
               /\ prev'[after[i + 1]] = WeakLink(after[i])
               /\ prev'[after[i + 2]] = WeakLink(after[i + 1])]_vars

\* An insert_at(2, v) into a list of three: the walk took one step.
C26_Witness ==
    /\ op.name = "insert_at"
    /\ op.index = 2
    /\ Len(before) = 3
    /\ size = 4
    /\ data[ListNodes(Cur)[3]] = op.val
    /\ prev[ListNodes(Cur)[4]] = WeakLink(ListNodes(Cur)[3])



\* C27: after every call, next and prev agree on every edge that does not
\* wrap around: for every live node n other than the tail, n's next is a
\* StrongLink and the prev of that successor targets n; in particular the
\* tail's prev targets the node whose StrongLink next targets the tail.
C27_EdgesAgree ==
    /\ \A n \in alive \ {tail} :
          /\ next[n].kind = "Strong"
          /\ prev[next[n].ref] = WeakLink(n)
    /\ size > 1 =>
          /\ prev[tail].kind = "Weak"
          /\ next[prev[tail].ref] = StrongLink(tail)

\* A pop_back that left three nodes: the new tail's prev is the link the next
\* pop_back will read.
C27_Witness ==
    /\ op.name = "pop_back"
    /\ Len(before) = 4
    /\ size = 3
    /\ next[prev[tail].ref] = StrongLink(tail)
    /\ prev[next[head].ref] = WeakLink(head)



\* The list a call o of the code leaves when made on s, before the cells are
\* renamed.
AfterCall(s, o) ==
    CASE o.name = "push_front" -> push_front(s, o.val)
      [] o.name = "push_back" -> push_back(s, o.val)
      [] o.name = "pop_front" -> pop_front(s).st
      [] o.name = "pop_back" -> pop_back(s).st
      [] o.name = "insert_at" -> insert_at(s, o.index, o.val)
      [] o.name = "drop" -> DropFields(drop(s).st)
      [] OTHER -> s

CodeCalls ==
    {"push_front", "push_back", "pop_front", "pop_back", "peek_front",
     "peek_back", "insert_at", "display", "drop"}

\* C28: operations touch only the end they work on: push_front on a non-empty
\* list and pop_front on a list of size > 1 leave the handle's tail as it was;
\* push_back on a non-empty list and pop_back on a list of size > 1 leave the
\* handle's head as it was; insert_at with 0 < index < size leaves both; and
\* no operation changes the payload of a node that stays in the list.
C28_Frame ==
    [][op'.name \in CodeCalls
         => \E s \in {AfterCall(Cur, op')} :
               /\ Cur' = Renamed(s)
               /\ \A n \in alive \cap s.alive : s.data[n] = data[n]
               /\ (op'.name = "push_front" /\ size >= 1) => s.tail = tail
               /\ (op'.name = "pop_front" /\ size > 1) => s.tail = tail
               /\ (op'.name = "push_back" /\ size >= 1) => s.head = head
               /\ (op'.name = "pop_back" /\ size > 1) => s.head = head
               /\ (op'.name = "insert_at" /\ 0 < op'.index /\ op'.index < size)
                     => (s.head = head /\ s.tail = tail)
               /\ (op'.name \in {"peek_front", "peek_back", "display"})
                     => (s.head = head /\ s.tail = tail)]_vars

\* A pop_front on a list of four: the three nodes that stay keep their
\* payloads and the tail is the node it was.
C28_Witness ==
    /\ op.name = "pop_front"
    /\ Len(before) = 4
    /\ before[1] # before[4]
    /\ size = 3
    /\ Contents(Cur) = SubSeq(before, 2, 4)
    /\ data[tail] = before[4]

\* An interior insert_at: both ends keep their payloads.
C28_WitnessInsert ==
    /\ op.name = "insert_at"
    /\ op.index = 1
    /\ Len(before) = 3
    /\ size = 4
    /\ data[head] = before[1]
    /\ data[tail] = before[3]

====
